---- MODULE Spec2Model ----
(***************************************************************************)
(* SudokuSolver.solve and SudokuSolver.validate_solution of src/sudoku.py  *)
(* as a state machine.  The 9x9x9 array options_3d, the 9x9 arrays         *)
(* puzzle_2d and prev_puzzle_2d, the list known_cells and the position of  *)
(* the generator _unique_combinations are the state; one action per loop   *)
(* body or straight-line block of solve.                                   *)
(***************************************************************************)
EXTENDS Integers, Sequences, FiniteSets, TLC

VARIABLES
    unsolved_sudoku,   \* the argument: 81 digits 0..9, row-major
    max_iterations,    \* the argument max_iterations
    pc,                \* position in solve
    puzzle_2d,         \* [row][col] -> 0..9
    prev_puzzle_2d,    \* puzzle_2d at the start of the current pass
    options_3d,        \* [row][col][depth] -> 0/1
    known_cells,       \* the list built at line 241, <<row, col, value>>
    cell_i,            \* index of the next element of known_cells (1-based)
    options_idx,       \* line 275: per unknown cell the list of <<row, col, depth>>
    prev_comb,         \* the generator's prev_comb, as positions in options_idx[i]
    yielded,           \* number of yields consumed from the generator
    num_possibilities, \* line 264, an int64 as four 16-bit limbs
    warned,            \* logging.warning was called (line 271)
    result             \* NotReturned, None, an 81-digit string, or an exception

vars == <<unsolved_sudoku, max_iterations, pc, puzzle_2d, prev_puzzle_2d,
          options_3d, known_cells, cell_i, options_idx, prev_comb, yielded,
          num_possibilities, warned, result>>

(***************************************************************************)
(* Bounds of the model                                                     *)
(***************************************************************************)
\* most cells blanked in the solved grid
MaxBlanks == 4
\* most digits given in the nearly empty grids
MaxGivens == 2
\* most combinations taken from the generator
MaxYields == 256

\* line 218: the default of max_iterations
DefaultMaxIterations == 10000000

(***************************************************************************)
(* Arrays                                                                  *)
(***************************************************************************)
Idx == 0..8

Sum9(f) == f[0] + f[1] + f[2] + f[3] + f[4] + f[5] + f[6] + f[7] + f[8]

\* candidate_solution.sum(axis=2)[r][c]
CellSum(o, r, c) == Sum9(o[r][c])

\* numpy argmax: the first index holding the maximum
ArgMax(v) ==
    IF \E k \in Idx : v[k] = 1
    THEN CHOOSE k \in Idx : v[k] = 1 /\ \A j \in 0..(k - 1) : v[j] = 0
    ELSE 0

\* row-major position of a cell in the 81-character string (1-based)
Pos(r, c) == 9 * r + c + 1

\* all 81 cells in C order, the order of np.nditer
AllCells == [i \in 1..81 |-> <<(i - 1) \div 9, (i - 1) % 9>>]

_string_to_np_puzzle(sudoku) ==
    LET p2 == [r \in Idx |-> [c \in Idx |-> sudoku[Pos(r, c)]]]
        o3 == [r \in Idx |-> [c \in Idx |-> [k \in Idx |->
                 IF p2[r][c] = 0 \/ p2[r][c] = k + 1 THEN 1 ELSE 0]]]
    IN  <<p2, o3>>

_np_puzzle_to_string(o) ==
    [i \in 1..81 |-> ArgMax(o[AllCells[i][1]][AllCells[i][2]]) + 1]

(***************************************************************************)
(* validate_solution                                                       *)
(***************************************************************************)
ShapeError == "ValueError: Candidate solution does not contain exactly one digit on each field."

\* the box loops written range(0, 3, 3): the first box only
BoxStarts_FirstOnly == {0}

\* the starts of the box loops, range(0, 6, 3)
BoxStarts == {0, 3}

RowsOk(o) == \A i \in Idx : \A k \in Idx : Sum9([j \in Idx |-> o[i][j][k]]) = 1

ColsOk(o) == \A j \in Idx : \A k \in Idx : Sum9([i \in Idx |-> o[i][j][k]]) = 1

BoxSum(o, i, j, k) ==
      o[i][j][k]     + o[i][j + 1][k]     + o[i][j + 2][k]
    + o[i + 1][j][k] + o[i + 1][j + 1][k] + o[i + 1][j + 2][k]
    + o[i + 2][j][k] + o[i + 2][j + 1][k] + o[i + 2][j + 2][k]

BoxesOk(o) == \A i \in BoxStarts : \A j \in BoxStarts : \A k \in Idx : BoxSum(o, i, j, k) = 1

\* line 102: the condition under which line 103 raises ValueError
validate_raises(o) == ~(\A r \in Idx : \A c \in Idx : CellSum(o, r, c) = 1)

\* lines 105-118: the value returned when line 103 does not raise
validate_solution(o) ==
    IF ~RowsOk(o) THEN FALSE
    ELSE IF ~ColsOk(o) THEN FALSE
    ELSE BoxesOk(o)

(***************************************************************************)
(* The propagation loop of solve, lines 237-262                            *)
(***************************************************************************)
\* what solve has produced: nothing yet, None, an 81-digit string, or a ValueError
NotReturned == [kind |-> "running", value |-> <<>>]
None == [kind |-> "None", value |-> <<>>]
Str(s) == [kind |-> "str", value |-> s]
Raise(msg) == [kind |-> "ValueError", value |-> <<msg>>]
\* the value returned by a call of validate_solution alone
Bool(b) == [kind |-> "bool", value |-> <<b>>]

\* line 241: the cells of puzzle_2d that are not 0, in nditer order
KnownCells(p2) ==
    LET all == [i \in 1..81 |-> <<AllCells[i][1], AllCells[i][2],
                                  p2[AllCells[i][1]][AllCells[i][2]]>>]
    IN  SelectSeq(all, LAMBDA t : t[3] # 0)

\* lines 244-250 without line 251: the cell's own digit is not set back
Eliminate_WithoutSetBack(o, cell) ==
    LET r == cell[1]
        c == cell[2]
        d == cell[3] - 1
    IN  [i \in Idx |-> [j \in Idx |->
          IF i = r \/ j = c \/ (i \div 3 = r \div 3 /\ j \div 3 = c \div 3)
          THEN [o[i][j] EXCEPT ![d] = 0]
          ELSE o[i][j]]]

\* lines 244-251 for one known cell <<r, c, v>>
Eliminate(o, cell) ==
    LET r == cell[1]
        c == cell[2]
        d == cell[3] - 1
    IN  [i \in Idx |-> [j \in Idx |->
          IF i = r \/ j = c \/ (i \div 3 = r \div 3 /\ j \div 3 = c \div 3)
          THEN [o[i][j] EXCEPT ![d] = IF i = r /\ j = c THEN 1 ELSE 0]
          ELSE o[i][j]]]

\* lines 255-256
PuzzleOf(o) ==
    [r \in Idx |-> [c \in Idx |->
        IF CellSum(o, r, c) # 1 THEN 0 ELSE ArgMax(o[r][c]) + 1]]

\* puzzle_2d.sum()
GridSum(p2) == Sum9([r \in Idx |-> Sum9(p2[r])])

\* line 259 with prev_puzzle_2d an alias of puzzle_2d: always equal
Unchanged_Aliased(p2, prev) == p2 = p2 /\ prev = prev

\* line 259 written np.all(puzzle_2d != prev_puzzle_2d)
Unchanged_AllDiffer(p2, prev) == \A r \in Idx : \A c \in Idx : p2[r][c] # prev[r][c]

\* line 259
Unchanged(p2, prev) == p2 = prev

\* line 261: 9*45
SolvedSum == 405

BeginPass ==
    /\ pc = "loop"
    /\ prev_puzzle_2d' = puzzle_2d
    /\ known_cells' = KnownCells(puzzle_2d)
    /\ cell_i' = 1
    /\ pc' = "elim"
    /\ UNCHANGED <<unsolved_sudoku, max_iterations, puzzle_2d, options_3d,
                   options_idx, prev_comb, yielded, num_possibilities, warned,
                   result>>

EliminateCell ==
    /\ pc = "elim"
    /\ cell_i <= Len(known_cells)
    /\ options_3d' = Eliminate(options_3d, known_cells[cell_i])
    /\ cell_i' = cell_i + 1
    /\ UNCHANGED <<unsolved_sudoku, max_iterations, pc, puzzle_2d, prev_puzzle_2d,
                   known_cells, options_idx, prev_comb, yielded, num_possibilities, warned,
                   result>>

EndPass ==
    /\ pc = "elim"
    /\ cell_i > Len(known_cells)
    /\ LET p2 == PuzzleOf(options_3d)
       IN  /\ puzzle_2d' = p2
           /\ IF Unchanged(p2, prev_puzzle_2d)
              THEN pc' = "gate" /\ result' = result
              ELSE IF GridSum(p2) = SolvedSum
              THEN pc' = "done" /\ result' = Str(_np_puzzle_to_string(options_3d))
              ELSE pc' = "loop" /\ result' = result
    /\ UNCHANGED <<unsolved_sudoku, max_iterations, prev_puzzle_2d, options_3d,
                   known_cells, cell_i, options_idx, prev_comb, yielded, warned,
                   num_possibilities>>

(***************************************************************************)
(* The budget gate, lines 264-272.  options_3d.sum(axis=2).prod() is a     *)
(* product of 81 int64 values and wraps modulo 2^64; it is kept here as    *)
(* four 16-bit limbs, least significant first.                             *)
(***************************************************************************)
LimbBase == 2 ^ 16

Int64One == <<1, 0, 0, 0>>

\* (x * k) mod 2^64 for 0 <= k <= 9
Mul64(x, k) ==
    LET t1 == x[1] * k
        t2 == x[2] * k + (t1 \div LimbBase)
        t3 == x[3] * k + (t2 \div LimbBase)
        t4 == x[4] * k + (t3 \div LimbBase)
    IN  <<t1 % LimbBase, t2 % LimbBase, t3 % LimbBase, t4 % LimbBase>>

\* the sign bit of the two's complement value
Int64Negative(x) == x[4] >= 2 ^ 15

\* x >= m for a non-negative x and 0 <= m < 2^31
Int64AtLeast(x, m) ==
    \/ x[4] > 0
    \/ x[3] > 0
    \/ x[2] > m \div LimbBase
    \/ (x[2] = m \div LimbBase /\ x[1] >= m % LimbBase)

IsInt64(x) == \A i \in 1..4 : x[i] \in 0..(LimbBase - 1)

\* the product of the cells i..81 times acc, each partial product an int64
RECURSIVE ProdFrom(_, _, _)
ProdFrom(o, i, acc) ==
    IF i > 81 THEN acc
    ELSE LET p == Mul64(acc, CellSum(o, AllCells[i][1], AllCells[i][2]))
         IN  IF IsInt64(p) THEN ProdFrom(o, i + 1, p) ELSE p

\* line 264
NumPossibilities(o) == ProdFrom(o, 1, Int64One)

\* line 270
OverBudget(n, m) == Int64AtLeast(n, m) \/ Int64Negative(n)

Gate ==
    /\ pc = "gate"
    /\ LET n == NumPossibilities(options_3d)
       IN  /\ num_possibilities' = n
           /\ IF n = Int64One
              THEN /\ pc' = "done"
                   /\ result' = Str(_np_puzzle_to_string(options_3d))
                   /\ warned' = warned
              ELSE IF OverBudget(n, max_iterations)
              THEN /\ pc' = "done"
                   /\ result' = None
                   /\ warned' = TRUE
              ELSE /\ pc' = "build"
                   /\ result' = result
                   /\ warned' = warned
    /\ UNCHANGED <<unsolved_sudoku, max_iterations, puzzle_2d, prev_puzzle_2d,
                   options_3d, known_cells, cell_i, options_idx, prev_comb, yielded>>

(***************************************************************************)
(* Search, lines 274-297, and the generator _unique_combinations           *)
(***************************************************************************)
NditerError == "ValueError: Iteration of zero-sized operands is not enabled"

\* np.where(options_3d[r, c, :] == 1)[0] as <<r, c, d>>, d ascending
CellOptions(o, r, c) ==
    SelectSeq([k \in 1..9 |-> <<r, c, k - 1>>], LAMBDA t : o[r][c][t[3]] = 1)

\* line 275, when no np.nditer is given an empty array
OptionsIdx(p2, o) ==
    LET unknown == SelectSeq(AllCells, LAMBDA t : p2[t[1]][t[2]] = 0)
    IN  [i \in 1..Len(unknown) |-> CellOptions(o, unknown[i][1], unknown[i][2])]

\* np.nditer raises on an array of size 0
NditerRaises(p2, o) ==
    \E r \in Idx : \E c \in Idx : p2[r][c] = 0 /\ CellSum(o, r, c) = 0

BuildOptions ==
    /\ pc = "build"
    /\ IF NditerRaises(puzzle_2d, options_3d)
       THEN /\ pc' = "done"
            /\ result' = Raise(NditerError)
            /\ options_idx' = options_idx
       ELSE /\ pc' = "first"
            /\ result' = result
            /\ options_idx' = OptionsIdx(puzzle_2d, options_3d)
    /\ UNCHANGED <<unsolved_sudoku, max_iterations, puzzle_2d, prev_puzzle_2d,
                   options_3d, known_cells, cell_i, prev_comb, yielded, warned,
                   num_possibilities>>

\* itertools.product: the first combination takes the first element of each list
FirstComb(idx) == [i \in 1..Len(idx) |-> 1]

\* itertools.product: the rightmost position that can advance
Advancing(idx, comb) == {i \in 1..Len(idx) : comb[i] < Len(idx[i])}

HasNextComb(idx, comb) == Advancing(idx, comb) # {}

\* the leftmost position advances first
NextComb_LeftmostFastest(idx, comb) ==
    LET a == CHOOSE i \in Advancing(idx, comb) : \A j \in Advancing(idx, comb) : i <= j
    IN  [i \in 1..Len(idx) |-> IF i > a THEN comb[i] ELSE IF i = a THEN comb[i] + 1 ELSE 1]

NextComb(idx, comb) ==
    LET a == CHOOSE i \in Advancing(idx, comb) : \A j \in Advancing(idx, comb) : j <= i
    IN  [i \in 1..Len(idx) |-> IF i < a THEN comb[i] ELSE IF i = a THEN comb[i] + 1 ELSE 1]

\* line 209: tuple((None, c) for c in comb)
FirstYield(idx) == [i \in 1..Len(idx) |-> <<None, idx[i][1]>>]

\* line 215: tuple((p, c) for c, p in zip(comb, prev_comb) if c != p)
DeltaYield(idx, prev, comb) ==
    SelectSeq([i \in 1..Len(idx) |-> <<idx[i][prev[i]], idx[i][comb[i]]>>],
              LAMBDA t : t[1] # t[2])

\* lines 283-284 for one element of the first yield
SetFirst(o, ch) ==
    [o EXCEPT ![ch[2][1]][ch[2][2]] = [k \in Idx |-> IF k = ch[2][3] THEN 1 ELSE 0]]

\* line 294 without line 293: the previous digit is not retracted
SetChange_WithoutRetract(o, ch) == [o EXCEPT ![ch[2][1]][ch[2][2]][ch[2][3]] = 1]

\* lines 293-294 for one element of a later yield
SetChange(o, ch) ==
    LET z == [o EXCEPT ![ch[1][1]][ch[1][2]][ch[1][3]] = 0]
    IN  [z EXCEPT ![ch[2][1]][ch[2][2]][ch[2][3]] = 1]

\* the for loop of line 282 from element i on
RECURSIVE ApplyFirst(_, _, _)
ApplyFirst(o, changes, i) ==
    IF i > Len(changes) THEN o
    ELSE LET n == SetFirst(o, changes[i])
         IN  IF DOMAIN n = Idx THEN ApplyFirst(n, changes, i + 1) ELSE n

\* the for loop of line 292 from element i on
RECURSIVE ApplyChanges(_, _, _)
ApplyChanges(o, changes, i) ==
    IF i > Len(changes) THEN o
    ELSE LET n == SetChange(o, changes[i])
         IN  IF DOMAIN n = Idx THEN ApplyChanges(n, changes, i + 1) ELSE n

\* lines 287-288 and 296-297: return the string if the candidate validates
Validated(o) ==
    IF validate_raises(o) THEN /\ pc' = "done" /\ result' = Raise(ShapeError)
    ELSE IF validate_solution(o) THEN /\ pc' = "done" /\ result' = Str(_np_puzzle_to_string(o))
    ELSE /\ pc' = "search" /\ result' = result

SearchFirst ==
    /\ pc = "first"
    /\ LET o == ApplyFirst(options_3d, FirstYield(options_idx), 1)
       IN  /\ options_3d' = o
           /\ Validated(o)
    /\ prev_comb' = FirstComb(options_idx)
    /\ yielded' = 1
    /\ UNCHANGED <<unsolved_sudoku, max_iterations, puzzle_2d, prev_puzzle_2d,
                   known_cells, cell_i, options_idx, warned, num_possibilities>>

SearchNext ==
    /\ pc = "search"
    /\ HasNextComb(options_idx, prev_comb)
    /\ yielded < MaxYields
    /\ LET comb == NextComb(options_idx, prev_comb)
           o == ApplyChanges(options_3d, DeltaYield(options_idx, prev_comb, comb), 1)
       IN  /\ options_3d' = o
           /\ prev_comb' = comb
           /\ Validated(o)
    /\ yielded' = yielded + 1
    /\ UNCHANGED <<unsolved_sudoku, max_iterations, puzzle_2d, prev_puzzle_2d,
                   known_cells, cell_i, options_idx, warned, num_possibilities>>

\* the for loop of line 291 ends and solve falls off its end
SearchExhausted ==
    /\ pc = "search"
    /\ ~HasNextComb(options_idx, prev_comb)
    /\ pc' = "done"
    /\ result' = None
    /\ UNCHANGED <<unsolved_sudoku, max_iterations, puzzle_2d, prev_puzzle_2d,
                   options_3d, known_cells, cell_i, options_idx, prev_comb, yielded,
                   warned, num_possibilities>>

(***************************************************************************)
(* Inputs.  A solved grid, blanked and overwritten in a few cells; a grid  *)
(* whose rows and columns are complete but which has no completion once    *)
(* eight of its cells are blanked; and nearly empty grids.                 *)
(***************************************************************************)
SolvedGrid ==
    << 5,3,4,6,7,8,9,1,2,
       6,7,2,1,9,5,3,4,8,
       1,9,8,3,4,2,5,6,7,
       8,5,9,7,6,1,4,2,3,
       4,2,6,8,5,3,7,9,1,
       7,1,3,9,2,4,8,5,6,
       9,6,1,5,3,7,2,8,4,
       2,8,7,4,1,9,6,3,5,
       3,4,5,2,8,6,1,7,9 >>

\* SolvedGrid with the 9 and 4 of rows 5 and 7, columns 3 and 5 exchanged
SolvedGridTwin ==
    [i \in 1..81 |->
        IF i \in {Pos(5, 3), Pos(7, 5)} THEN 4
        ELSE IF i \in {Pos(5, 5), Pos(7, 3)} THEN 9
        ELSE SolvedGrid[i]]

\* every row and column holds 1..9 once; four boxes hold a digit twice
LatinGrid ==
    << 1,3,4,2,7,8,9,5,6,
       9,1,7,6,2,5,3,4,8,
       5,6,8,3,4,9,1,2,7,
       8,2,9,1,6,4,5,7,3,
       2,7,5,8,1,3,6,9,4,
       3,4,6,9,5,7,8,1,2,
       4,8,2,5,3,1,7,6,9,
       6,9,1,7,8,2,4,3,5,
       7,5,3,4,9,6,2,8,1 >>

EmptyGrid == [i \in 1..81 |-> 0]

Blanked(grid, cells) == [i \in 1..81 |-> IF i \in cells THEN 0 ELSE grid[i]]

\* givens: a set of <<position, digit>> with distinct positions
Overwritten(grid, givens) ==
    [i \in 1..81 |->
        IF \E g \in givens : g[1] = i
        THEN (CHOOSE g \in givens : g[1] = i)[2]
        ELSE grid[i]]

BlankPool == {Pos(5, 3), Pos(5, 5), Pos(7, 3), Pos(7, 5), Pos(8, 8)}

WrongGivens == { {}, {<<Pos(3, 5), 4>>} }

LatinBlanks == {Pos(0, 0), Pos(0, 3), Pos(3, 3), Pos(3, 1),
                Pos(1, 1), Pos(1, 4), Pos(4, 4), Pos(4, 0)}

GivenPool == {<<Pos(0, 0), 5>>, <<Pos(0, 1), 5>>, <<Pos(0, 1), 3>>, <<Pos(4, 4), 5>>}

DistinctPositions(givens) == \A g \in givens : \A h \in givens : g[1] = h[1] => g = h

Inputs ==
    {Overwritten(Blanked(SolvedGrid, b), w) :
        b \in {x \in SUBSET BlankPool : Cardinality(x) <= MaxBlanks}, w \in WrongGivens}
    \cup {Blanked(LatinGrid, LatinBlanks)}
    \cup {Overwritten(EmptyGrid, g) :
        g \in {x \in SUBSET GivenPool : Cardinality(x) <= MaxGivens /\ DistinctPositions(x)}}

MaxIterationsChoices == {1, 16, DefaultMaxIterations}

(***************************************************************************)
(* solve, lines 218-234: the state after _string_to_np_puzzle              *)
(***************************************************************************)
Init ==
    /\ unsolved_sudoku \in Inputs
    /\ max_iterations \in MaxIterationsChoices
    /\ puzzle_2d = _string_to_np_puzzle(unsolved_sudoku)[1]
    /\ options_3d = _string_to_np_puzzle(unsolved_sudoku)[2]
    /\ prev_puzzle_2d = <<>>
    /\ known_cells = <<>>
    /\ cell_i = 1
    /\ options_idx = <<>>
    /\ prev_comb = <<>>
    /\ yielded = 0
    /\ num_possibilities = <<>>
    /\ warned = FALSE
    /\ result = NotReturned
    /\ pc = "loop"

Next ==
    \/ BeginPass
    \/ EliminateCell
    \/ EndPass
    \/ Gate
    \/ BuildOptions
    \/ SearchFirst
    \/ SearchNext
    \/ SearchExhausted

Spec == Init /\ [][Next]_vars

\* one step of the while loop of lines 237-262
Propagate == BeginPass \/ EliminateCell \/ EndPass

\* solve is one sequential call: the loop keeps stepping while it can
FairSpec == Spec /\ WF_vars(Propagate)

(***************************************************************************)
(* validate_solution called on its own, lines 76-118                       *)
(***************************************************************************)
\* the 9x9x9 indicator structure of a filled grid
CubeOf(grid) ==
    [r \in Idx |-> [c \in Idx |-> [k \in Idx |-> IF grid[Pos(r, c)] = k + 1 THEN 1 ELSE 0]]]

SwapIdx(i, a, b) == IF i = a THEN b ELSE IF i = b THEN a ELSE i

SwapRows(grid, a, b) ==
    [i \in 1..81 |-> grid[Pos(SwapIdx(AllCells[i][1], a, b), AllCells[i][2])]]

SwapCols(grid, a, b) ==
    [i \in 1..81 |-> grid[Pos(AllCells[i][1], SwapIdx(AllCells[i][2], a, b))]]

\* a pair <<a, a>> swaps nothing
SwapPairs == {p \in Idx \X Idx : p[1] <= p[2]}

\* a second 7 in the last box, or nothing
DuplicateInBox == { {}, {<<Pos(8, 8), 7>>} }

CandidateGrids ==
    {Overwritten(SwapCols(SwapRows(g, rs[1], rs[2]), cs[1], cs[2]), w) :
        g \in {SolvedGrid, LatinGrid}, rs \in SwapPairs, cs \in SwapPairs,
        w \in DuplicateInBox}

InitValidate ==
    /\ options_3d \in {CubeOf(g) : g \in CandidateGrids}
    /\ pc = "validate"
    /\ result = NotReturned
    /\ unsolved_sudoku = <<>>
    /\ max_iterations = DefaultMaxIterations
    /\ puzzle_2d = <<>>
    /\ prev_puzzle_2d = <<>>
    /\ known_cells = <<>>
    /\ cell_i = 1
    /\ options_idx = <<>>
    /\ prev_comb = <<>>
    /\ yielded = 0
    /\ num_possibilities = <<>>
    /\ warned = FALSE

ValidateCall ==
    /\ pc = "validate"
    /\ pc' = "validated"
    /\ result' = IF validate_raises(options_3d) THEN Raise(ShapeError)
                 ELSE Bool(validate_solution(options_3d))
    /\ UNCHANGED <<unsolved_sudoku, max_iterations, puzzle_2d, prev_puzzle_2d,
                   options_3d, known_cells, cell_i, options_idx, prev_comb, yielded,
                   num_possibilities, warned>>

NextValidate == ValidateCall

SpecValidate == InitValidate /\ [][NextValidate]_vars

(***************************************************************************)
(* What a solution is, stated without the code's arithmetic                *)
(***************************************************************************)
Digits == 1..9

RowUnit(r) == {Pos(r, c) : c \in Idx}
ColUnit(c) == {Pos(r, c) : r \in Idx}
BoxUnit(b) == {Pos(3 * (b \div 3) + i, 3 * (b % 3) + j) : i \in 0..2, j \in 0..2}
Units == {RowUnit(r) : r \in Idx} \cup {ColUnit(c) : c \in Idx} \cup {BoxUnit(b) : b \in Idx}

\* 81 digits 1..9 with each digit once in every row, column and box
IsSolution(str) ==
    /\ DOMAIN str = 1..81
    /\ \A i \in 1..81 : str[i] \in Digits
    /\ \A u \in Units : \A d \in Digits : Cardinality({i \in u : str[i] = d}) = 1

AgreesWith(str, sudoku) == \A i \in 1..81 : sudoku[i] # 0 => str[i] = sudoku[i]

\* the candidate set of a cell, as digits
Candidates(o, r, c) == {k + 1 : k \in {j \in Idx : o[r][c][j] = 1}}

OneDigitEach(o) == \A r \in Idx : \A c \in Idx : Cardinality(Candidates(o, r, c)) = 1

\* every unit of a one-digit-per-cell structure holds each digit once
CubeIsSolution(o) ==
    \A u \in Units : \A d \in Digits :
        Cardinality({i \in u : d \in Candidates(o, AllCells[i][1], AllCells[i][2])}) = 1

SomeCellEmpty(o) == \E r \in Idx : \E c \in Idx : Candidates(o, r, c) = {}

\* the product of the candidate-set sizes, as an integer up to ProductCap
ProductCap == 2 ^ 30

CappedTimes(a, k) == IF k = 0 THEN 0 ELSE IF a > ProductCap \div k THEN ProductCap ELSE a * k

RECURSIVE CappedProductFrom(_, _, _)
CappedProductFrom(o, i, acc) ==
    IF i > 81 THEN acc
    ELSE LET p == CappedTimes(acc, Cardinality(Candidates(o, AllCells[i][1], AllCells[i][2])))
         IN  IF p >= 0 THEN CappedProductFrom(o, i + 1, p) ELSE p

\* min(product, ProductCap); every max_iterations of the model is below ProductCap
CappedProduct(o) == CappedProductFrom(o, 1, 1)

\* completions known for the inputs of the model
KnownCompletions == {SolvedGrid, SolvedGridTwin}

Completions(sudoku) == {g \in KnownCompletions : AgreesWith(g, sudoku)}

(***************************************************************************)
(* Claims                                                                  *)
(***************************************************************************)

\* C1: whenever solve returns a string, the string is 81 digits 1-9 with each
\* digit once in every row, column and box, and it agrees with the input on
\* every cell the input filled.
C1_ReturnedStringIsSolution ==
    (pc = "done" /\ result.kind = "str") =>
        /\ IsSolution(result.value)
        /\ AgreesWith(result.value, unsolved_sudoku)

\* C2: on a structure with one digit per cell, validate_solution returns true
\* exactly when every row, column and each of the nine boxes holds each digit
\* once.
C2_ValidateIffSolution ==
    (pc = "validated" /\ OneDigitEach(options_3d)) =>
        /\ result.kind = "bool"
        /\ result.value[1] <=> CubeIsSolution(options_3d)

\* C2 witness: a grid whose rows and columns are complete, with a duplicate in
\* a box of the third band only among the boxes of the third band and stack,
\* was rejected.
C2_Witness ==
    /\ pc = "validated"
    /\ OneDigitEach(options_3d)
    /\ RowsOk(options_3d) /\ ColsOk(options_3d)
    /\ \E b \in {2, 5, 6, 7, 8} : \E d \in Digits :
          Cardinality({i \in BoxUnit(b) : d \in Candidates(options_3d, AllCells[i][1], AllCells[i][2])}) = 2
    /\ result = Bool(FALSE)

\* C3: when propagation has stopped without solving and the product of the
\* candidate-set sizes is at least max_iterations, solve does not go on to
\* enumerate combinations.
C3_BudgetGate ==
    pc = "build" => CappedProduct(options_3d) < max_iterations

\* C4: once propagation has emptied a cell's candidate set, the next step of
\* solve ends it with a negative result: no further elimination, no
\* enumeration, no exception.
C4_ContradictionEndsSolve ==
    [][SomeCellEmpty(options_3d) => (pc' = "done" /\ result'.kind = "None")]_vars

\* C5: for an input with a valid completion, propagation keeps every digit of
\* the completion, solve raises nothing, and it returns None only from the
\* budget gate with a candidate count of at least max_iterations; search
\* exhaustion is not reached.
C5_Completeness ==
    Completions(unsolved_sudoku) # {} =>
        /\ pc \in {"loop", "elim", "gate", "build", "first"} =>
              \A g \in Completions(unsolved_sudoku) : \A r \in Idx : \A c \in Idx :
                  g[Pos(r, c)] \in Candidates(options_3d, r, c)
        /\ result.kind # "ValueError"
        /\ (pc = "done" /\ result.kind = "None") =>
              (warned /\ CappedProduct(options_3d) >= max_iterations)

\* C5 witness: a satisfiable input went through search and a string came back.
C5_Witness ==
    /\ Completions(unsolved_sudoku) # {}
    /\ pc = "done" /\ result.kind = "str" /\ yielded > 1

\* C6: no step of propagation or search sets an entry of options_3d from 0 to
\* 1: no digit comes back into a candidate set, and no candidate set grows.
C6_Monotone ==
    [][\A r \in Idx : \A c \in Idx : \A k \in Idx :
          options_3d'[r][c][k] <= options_3d[r][c][k]]_vars

\* one more full pass over the known cells of p2, from element i on
RECURSIVE FullPass(_, _, _)
FullPass(o, cells, i) ==
    IF i > Len(cells) THEN o
    ELSE LET n == Eliminate(o, cells[i])
         IN  IF DOMAIN n = Idx THEN FullPass(n, cells, i + 1) ELSE n

\* C7: when the propagation loop exits because a pass left the known cells
\* unchanged, one more full pass changes no candidate set.
C7_FixedPoint ==
    pc = "gate" => FullPass(options_3d, KnownCells(puzzle_2d), 1) = options_3d

\* C7 witness: the loop exited by the unchanged test after eliminating
\* candidates, with cells still undetermined.
C7_Witness ==
    /\ pc = "gate"
    /\ options_3d # _string_to_np_puzzle(unsolved_sudoku)[2]
    /\ \E r \in Idx : \E c \in Idx : Cardinality(Candidates(options_3d, r, c)) > 1

\* element k (from 0) of the Cartesian product of the lists, the last list
\* varying fastest, as positions in the lists; q[i] is k divided by the
\* lengths of the lists after list i
KthOfProduct(idx, k) ==
    LET q[i \in 0..Len(idx)] ==
            IF i = Len(idx) THEN k ELSE q[i + 1] \div Len(idx[i + 1])
    IN  [i \in 1..Len(idx) |-> (q[i] % Len(idx[i])) + 1]

OneHot(d) == [k \in Idx |-> IF k = d THEN 1 ELSE 0]

\* the unknown cells of o hold the elements of the lists at positions pos
HoldsElement(o, idx, pos) ==
    \A i \in 1..Len(idx) :
        o[idx[i][1][1]][idx[i][1][2]] = OneHot(idx[i][pos[i]][3])

\* the structure o with the elements at positions pos in the unknown cells
CubeWith(o, idx, pos) ==
    [r \in Idx |-> [c \in Idx |->
        IF \E i \in 1..Len(idx) : idx[i][1][1] = r /\ idx[i][1][2] = c
        THEN LET i == CHOOSE i \in 1..Len(idx) : idx[i][1][1] = r /\ idx[i][1][2] = c
             IN  OneHot(idx[i][pos[i]][3])
        ELSE o[r][c]]]

\* the lists are those of the unknown cells of p2 in row-major order, each
\* list the positions of one cell with its digits ascending
ProductOrder(idx, p2) ==
    /\ {<<idx[i][1][1], idx[i][1][2]>> : i \in 1..Len(idx)}
          = {rc \in Idx \X Idx : p2[rc[1]][rc[2]] = 0}
    /\ \A i \in 1..Len(idx) :
          /\ \A e \in 1..Len(idx[i]) :
                idx[i][e][1] = idx[i][1][1] /\ idx[i][e][2] = idx[i][1][2]
          /\ \A e \in 2..Len(idx[i]) : idx[i][e - 1][3] < idx[i][e][3]
          /\ i > 1 => Pos(idx[i - 1][1][1], idx[i - 1][1][2]) < Pos(idx[i][1][1], idx[i][1][2])

\* C8: after k yields have been applied the unknown cells hold element k of
\* the Cartesian product of their candidate lists (cells in row-major order,
\* digits ascending), and a string returned by search is the first element
\* of the product that is a solution.
C8_DeltaEnumeration ==
    (pc \in {"search", "done"} /\ yielded >= 1) =>
        /\ \A pos \in {KthOfProduct(options_idx, yielded - 1)} :
              HoldsElement(options_3d, options_idx, pos)
        /\ ProductOrder(options_idx, puzzle_2d)
        /\ (result.kind = "str") =>
              /\ result.value = _np_puzzle_to_string(options_3d)
              /\ CubeIsSolution(options_3d)
              /\ \A j \in 0..(yielded - 2) :
                    ~CubeIsSolution(CubeWith(options_3d, options_idx,
                                             KthOfProduct(options_idx, j)))
        /\ (result.kind = "running") => ~CubeIsSolution(options_3d)

\* C8 witness: search returned a string after applying several deltas.
C8_Witness ==
    /\ pc = "done" /\ result.kind = "str" /\ yielded >= 4
    /\ \E i \in 1..Len(prev_comb) : prev_comb[i] > 1

\* C9: every structure search hands to validate_solution has exactly one
\* digit in each of the 81 cells, and validate_solution does not raise.
C9_WellFormedCandidates ==
    yielded >= 1 => (OneDigitEach(options_3d) /\ result.kind # "ValueError")

\* C9 witness: validate_solution has been called on a structure reached by a
\* delta, and returned false.
C9_Witness == pc = "search" /\ yielded >= 2

\* C10: the propagation loop ends for every input, and a cell that is not
\* known and has no candidate left stays so while the loop runs.
C10_PropagationTerminates ==
    /\ <>(pc \notin {"loop", "elim"})
    /\ [][\A r \in Idx : \A c \in Idx :
            (pc \in {"loop", "elim"} /\ puzzle_2d[r][c] = 0 /\ Candidates(options_3d, r, c) = {})
               => (puzzle_2d'[r][c] = 0 /\ Candidates(options_3d', r, c) = {})]_vars

\* C10 witness: on a contradictory input a given cell was emptied by a peer
\* and the loop has ended.
C10_Witness ==
    /\ pc = "gate"
    /\ \E r \in Idx : \E c \in Idx :
          unsolved_sudoku[Pos(r, c)] # 0 /\ Candidates(options_3d, r, c) = {}

====
